---- MODULE Spec2Model ----
(***************************************************************************)
(* Model of src/start.js: the bootstrap and lifecycle layer of the         *)
(* exposure ingestion service.                                             *)
(*                                                                         *)
(* The module-level `app` (one Express application per process) holds the  *)
(* middleware stack; startServer() appends its stages to it, asks mongoose *)
(* to connect, registers an "open" listener on the default connection,     *)
(* and binds a socket with app.listen().  Every JavaScript callback runs   *)
(* to completion, so each callback is one action.                          *)
(*                                                                         *)
(* What the libraries do is modelled at the place start.js calls them:     *)
(*  - net.Server.close(cb) registers cb for the next "close" event (with   *)
(*    an error argument when the socket is already released), releases     *)
(*    the socket, and emits "close" once no connection is left;            *)
(*  - Express hands a request to the layers of app in registration order,  *)
(*    an error only to error middleware;                                   *)
(*  - express-rate-limit counts requests per identity and answers 429      *)
(*    once the count of the window exceeds max;                            *)
(*  - mongoose.connection is one object per process and emits "open"       *)
(*    once the connection is established;                                  *)
(*  - compression() calls its filter option when a response is sent after  *)
(*    the compression stage, and compresses only if the filter says so;    *)
(*  - the process emits "uncaughtException" for an exception no callback   *)
(*    catches, and goes on running when the event has a listener.          *)
(***************************************************************************)
EXTENDS Integers, Sequences, FiniteSets, TLC

(* ----------------------------- bounds ---------------------------------- *)
\* calls of startServer() in one process
MaxStarts == 2
\* sockets a server can hold open at once
MaxConns == 1
\* calls of the promisified server.close() in one process
MaxCallers == 2
\* requests being handled at once
MaxReqs == 2
\* originating identities (keys of the rate limiter)
MaxClients == 2
\* exceptions that escape every callback in one process
MaxFaults == 2

(* --------------------------- program constants -------------------------- *)
\* rateLimiter: max requests of one identity per window
RateMax == 5

Servers == 1..MaxStarts
ConnIds == 1..MaxConns
Callers == 1..MaxCallers
ReqIds == 1..MaxReqs
Clients == 1..MaxClients

(* --------------------------- the state --------------------------------- *)
VARIABLES
    env,               \* process.env as read by start.js (fixed per process)
    started,           \* number of startServer() calls made so far
    app,               \* the middleware stack of app, in registration order
    listen,            \* per server: outcome of app.listen(port, cb)
    handleOpen,        \* per server: the listening socket is held (accepting)
    startPromise,      \* per server: the promise startServer() returned
    conns,             \* per server: the connections currently open
    closeListeners,    \* per server: callers registered once("close", cb)
    pendingEmit,       \* per server: scheduled emissions of "close"
    closeEmitted,      \* per server: emissions of "close" so far
    originalCloseCalls,\* per server: calls of originalClose (net close)
    callers,           \* per caller of server.close(): its promise
    db,                \* mongoose.connection (the process-wide default one)
    openListeners,     \* "open" listeners registered on mongoose.connection
    warmups,           \* the warm-up fetches issued, in order
    log,               \* number of console.log(err) calls of the fetch callbacks
    reqs,              \* per request slot: the request and how far it has got
    hits,              \* rateLimiter's store: requests counted per identity
    uncaughtListeners, \* listeners of the process's "uncaughtException" event
    logger,            \* what the fault handler has written to the logger
    exited,            \* the process has terminated
    portArg,           \* per server: the port property startServer was given
    port               \* per server: the port handed to app.listen

lifeVars == <<listen, handleOpen, startPromise>>
closeVars == <<conns, closeListeners, pendingEmit, closeEmitted,
               originalCloseCalls, callers>>
dbVars == <<db, openListeners, warmups, log>>
appVars == <<env, started, app>>
reqVars == <<reqs, hits>>
procVars == <<uncaughtListeners, logger, exited>>
portVars == <<portArg, port>>

(* ------------------------ the middleware stack -------------------------- *)
\* The stages one startServer() call registers, in source order.  The
\* documentation routes come first and only outside production.
initialiseSwagger(e) == IF e.production THEN << >> ELSE << "swagger" >>

\* Variant of CoreStages: the body parser is registered before the
\* compression stage.
CoreStagesParserFirst ==
    << "rateLimiter", "helmet", "cors", "alive", "expressLogger",
       "json", "compression", "urlencoded", "routes", "catchAll" >>

\* Variant of CoreStages: no catch-all is registered.
CoreStagesNoCatchAll ==
    << "rateLimiter", "helmet", "cors", "alive", "expressLogger",
       "compression", "json", "urlencoded", "routes" >>

CoreStages ==
    << "rateLimiter", "helmet", "cors", "alive", "expressLogger",
       "compression", "json", "urlencoded", "routes", "catchAll" >>

\* Variant of RegisteredStages: the error middleware is registered before
\* the catch-all.
RegisteredStagesErrorEarly(e) ==
    initialiseSwagger(e)
      \o << "rateLimiter", "helmet", "cors", "alive", "expressLogger",
            "compression", "json", "urlencoded", "routes" >>
      \o << "genericErrorMiddleware", "catchAll" >>

RegisteredStages(e) ==
    initialiseSwagger(e) \o CoreStages \o << "genericErrorMiddleware" >>

(* ------------------------ ServiceHandle state --------------------------- *)
\* The four states of the specification, read off the server object:
\* not yet listening, holding the socket, socket released but "close" not
\* yet emitted, "close" emitted.
State(s) ==
    IF listen[s] # "listening" THEN "Starting"
    ELSE IF handleOpen[s] THEN "Listening"
    ELSE IF closeEmitted[s] = 0 THEN "Closing"
    ELSE "Closed"

NoCaller == [server |-> 0, resolveCalls |-> 0, value |-> "none",
             cbArg |-> "none", inflightAtCall |-> {}]

(* ------------------------------ requests ------------------------------- *)
\* The inbound requests considered: the liveness probe, a preflight, the
\* documentation page, paths under the API prefix (with a well-formed and
\* with a malformed JSON body) and a path outside it.
Requests ==
    { [method |-> "GET", path |-> "/alive", badBody |-> FALSE, headers |-> {}],
      [method |-> "OPTIONS", path |-> "/alive", badBody |-> FALSE, headers |-> {}],
      [method |-> "GET", path |-> "/api-docs", badBody |-> FALSE, headers |-> {}],
      [method |-> "GET", path |-> "/api/v1/wifis", badBody |-> FALSE, headers |-> {}],
      [method |-> "POST", path |-> "/api/v1/wifis", badBody |-> TRUE, headers |-> {}],
      [method |-> "GET", path |-> "/no-such-route", badBody |-> FALSE, headers |-> {}] }

\* Requests with and without the opt-out header of the compression stage:
\* a path under the API prefix and a path outside it.
HeaderRequests ==
    [method : {"GET"}, path : {"/api/v1/wifis", "/no-such-route"},
     badBody : {FALSE}, headers : {{}, {"x-no-compression"}}]

NoResponse == [status |-> 0, body |-> ""]

\* The compression stage has not decided about a response.
NoDecision == [called |-> FALSE, generic |-> FALSE, compress |-> FALSE]

\* A free request slot.
NoRequest == [client |-> 0,
              req |-> [method |-> "", path |-> "", badBody |-> FALSE, headers |-> {}],
              pos |-> 0, err |-> FALSE, res |-> NoResponse, trace |-> << >>,
              compression |-> NoDecision]

\* The JavaScript value undefined: an environment variable that is not set,
\* a property the caller did not give.
undefined == "<undefined>"

\* The port startServer falls back to.
DefaultPort == "5000"

\* process.env as start.js reads it: CACHE_ON_STARTUP === "true",
\* NODE_ENV === "production", and PORT and API_PREFIX, each set or not.
Env == [cacheOnStartup : BOOLEAN, production : BOOLEAN,
        PORT : {undefined, "8080"}, API_PREFIX : {undefined, "/api/v2/"}]

\* The port property of the argument of startServer: given or not.
PortArgs == {undefined, "3000"}

\* a || b
OrElse(a, b) == IF a # undefined THEN a ELSE b

\* Variant of ResolvePort: the environment variable wins over the argument.
ResolvePortEnvFirst(arg, e) ==
    IF e.PORT # undefined THEN e.PORT ELSE OrElse(arg, DefaultPort)

\* The default of the parameter: { port = process.env.PORT || 5000 }.
ResolvePort(arg, e) ==
    IF arg # undefined THEN arg ELSE OrElse(e.PORT, DefaultPort)

\* The mount path of the routes: process.env.API_PREFIX || "/api/v1/".
ApiPrefix(e) == OrElse(e.API_PREFIX, "/api/v1/")

\* A value inside a template literal: undefined reads "undefined".
Template(v) == IF v = undefined THEN "undefined" ELSE v

Init ==
    /\ env \in Env
    /\ started = 0
    /\ app = << >>
    /\ listen = [s \in Servers |-> "none"]
    /\ handleOpen = [s \in Servers |-> FALSE]
    /\ startPromise = [s \in Servers |-> "none"]
    /\ conns = [s \in Servers |-> {}]
    /\ closeListeners = [s \in Servers |-> {}]
    /\ pendingEmit = [s \in Servers |-> 0]
    /\ closeEmitted = [s \in Servers |-> 0]
    /\ originalCloseCalls = [s \in Servers |-> 0]
    /\ callers = [c \in Callers |-> NoCaller]
    /\ db = "idle"
    /\ openListeners = 0
    /\ warmups = << >>
    /\ log = 0
    /\ reqs = [r \in ReqIds |-> NoRequest]
    /\ hits = [c \in Clients |-> 0]
    /\ uncaughtListeners = 1
    /\ logger = << >>
    /\ exited = FALSE
    /\ portArg = [s \in Servers |-> undefined]
    /\ port = [s \in Servers |-> undefined]

RECURSIVE Repeat(_, _)
Repeat(seq, n) == IF n = 0 THEN << >> ELSE seq \o Repeat(seq, n - 1)

(* --------------------------- the fault handler -------------------------- *)
\* What the "uncaughtException" listener writes: the error with its origin
\* and stack trace, then the warning to restart.  It returns; it does not
\* call process.exit.
uncaughtExceptionHandler ==
    << [level |-> "error", message |-> "Uncaught Exception: origin, error, trace"],
       [level |-> "warn", message |-> "Server may be unstable. Please restart server"] >>

\* The process emits "uncaughtException": every listener runs.  Node ends
\* the process itself only when there is no listener.
EmitUncaughtException ==
    /\ logger' = logger \o Repeat(uncaughtExceptionHandler, uncaughtListeners)
    /\ exited' = (exited \/ uncaughtListeners = 0)
    /\ UNCHANGED uncaughtListeners

\* Variant of UncaughtException: the listener ends the process after it has
\* logged, which releases every socket.
UncaughtExceptionExit ==
    /\ Len(logger) < 2 * (MaxStarts + MaxFaults)
    /\ logger' = logger \o Repeat(uncaughtExceptionHandler, uncaughtListeners)
    /\ exited' = TRUE
    /\ handleOpen' = [s \in Servers |-> FALSE]
    /\ UNCHANGED <<uncaughtListeners, listen, startPromise>>
    /\ UNCHANGED appVars
    /\ UNCHANGED reqVars
    /\ UNCHANGED closeVars
    /\ UNCHANGED dbVars
    /\ UNCHANGED portVars

\* An exception escapes a callback (a timer, a collaborator's event
\* handler): the process emits "uncaughtException".
UncaughtException ==
    /\ Len(logger) < 2 * (MaxStarts + MaxFaults)
    /\ EmitUncaughtException
    /\ UNCHANGED appVars
    /\ UNCHANGED reqVars
    /\ UNCHANGED lifeVars
    /\ UNCHANGED closeVars
    /\ UNCHANGED dbVars
    /\ UNCHANGED portVars

(* ---------------------------- startServer ------------------------------- *)
\* mongoose.connect(url) on the default connection: a connection that is
\* already connecting or open is left as it is, otherwise it starts
\* connecting.
MongooseConnect(d) == IF d \in {"connecting", "open"} THEN d ELSE "connecting"

\* Variant of startServer: resolve(server) is called right after app.listen
\* instead of inside its callback.
startServerResolveNow(arg) ==
    /\ started < MaxStarts
    /\ started' = started + 1
    /\ portArg' = [portArg EXCEPT ![started + 1] = arg]
    /\ port' = [port EXCEPT ![started + 1] = ResolvePort(arg, env)]
    /\ app' = app \o RegisteredStages(env)
    /\ db' = MongooseConnect(db)
    /\ openListeners' = openListeners + 1
    /\ listen' = [listen EXCEPT ![started + 1] = "pending"]
    /\ startPromise' = [startPromise EXCEPT ![started + 1] = "resolved"]
    /\ UNCHANGED <<env, handleOpen, warmups, log>>
    /\ UNCHANGED closeVars
    /\ UNCHANGED reqVars
    /\ UNCHANGED procVars

\* Variant of startServer: app.listen is called before the error middleware
\* is registered, which is left to a later turn of the event loop.
startServerListenFirst(arg) ==
    /\ started < MaxStarts
    /\ started' = started + 1
    /\ portArg' = [portArg EXCEPT ![started + 1] = arg]
    /\ port' = [port EXCEPT ![started + 1] = ResolvePort(arg, env)]
    /\ app' = app \o initialiseSwagger(env) \o CoreStages
    /\ db' = MongooseConnect(db)
    /\ openListeners' = openListeners + 1
    /\ listen' = [listen EXCEPT ![started + 1] = "pending"]
    /\ startPromise' = [startPromise EXCEPT ![started + 1] = "pending"]
    /\ UNCHANGED <<env, handleOpen, warmups, log>>
    /\ UNCHANGED closeVars
    /\ UNCHANGED reqVars
    /\ UNCHANGED procVars

\* One call of startServer({ port: arg }): the synchronous body resolves
\* the port, registers every stage on the shared app, starts the storage
\* connection, adds an "open" listener and calls app.listen with the port;
\* the returned promise is pending.
startServer(arg) ==
    /\ started < MaxStarts
    /\ started' = started + 1
    /\ portArg' = [portArg EXCEPT ![started + 1] = arg]
    /\ port' = [port EXCEPT ![started + 1] = ResolvePort(arg, env)]
    /\ app' = app \o RegisteredStages(env)
    /\ db' = MongooseConnect(db)
    /\ openListeners' = openListeners + 1
    /\ listen' = [listen EXCEPT ![started + 1] = "pending"]
    /\ startPromise' = [startPromise EXCEPT ![started + 1] = "pending"]
    /\ UNCHANGED <<env, handleOpen, warmups, log>>
    /\ UNCHANGED closeVars
    /\ UNCHANGED reqVars
    /\ UNCHANGED procVars

\* Variant of ListenCallback: the bind waits for the storage connection.
ListenCallbackAfterOpen(s) ==
    /\ listen[s] = "pending"
    /\ db = "open"
    /\ \A u \in Servers : u # s /\ handleOpen[u] => port[u] # port[s]
    /\ listen' = [listen EXCEPT ![s] = "listening"]
    /\ handleOpen' = [handleOpen EXCEPT ![s] = TRUE]
    /\ startPromise' = [startPromise EXCEPT ![s] = "resolved"]
    /\ UNCHANGED appVars
    /\ UNCHANGED reqVars
    /\ UNCHANGED closeVars
    /\ UNCHANGED dbVars
    /\ UNCHANGED procVars
    /\ UNCHANGED portVars

\* The callback of app.listen: the socket is bound, which needs the port
\* not to be held by another server of the process.  It replaces
\* server.close by the promise wrapper and resolves the startup promise
\* with the server.
ListenCallback(s) ==
    /\ listen[s] = "pending"
    /\ \A u \in Servers : u # s /\ handleOpen[u] => port[u] # port[s]
    /\ listen' = [listen EXCEPT ![s] = "listening"]
    /\ handleOpen' = [handleOpen EXCEPT ![s] = TRUE]
    /\ startPromise' = [startPromise EXCEPT ![s] = "resolved"]
    /\ UNCHANGED appVars
    /\ UNCHANGED reqVars
    /\ UNCHANGED closeVars
    /\ UNCHANGED dbVars
    /\ UNCHANGED procVars
    /\ UNCHANGED portVars

\* The bind fails (EADDRINUSE, EACCES): the server emits "error", the
\* listen callback never runs, and nothing settles the promise.  The server
\* has no "error" listener, so the error is thrown out of the emit and the
\* process emits "uncaughtException".
ListenError(s) ==
    /\ listen[s] = "pending"
    /\ listen' = [listen EXCEPT ![s] = "error"]
    /\ EmitUncaughtException
    /\ UNCHANGED <<handleOpen, startPromise>>
    /\ UNCHANGED appVars
    /\ UNCHANGED reqVars
    /\ UNCHANGED closeVars
    /\ UNCHANGED dbVars
    /\ UNCHANGED portVars

(* ------------------------- storage connection --------------------------- *)
WarmupKinds == << "reloadFeatureCache", "reloadHeatmapData" >>

\* One warm-up fetch: a PATCH to
\* http://localhost:${process.env.PORT}${process.env.API_PREFIX}wifis/patch/<kind>.
\* What one "open" listener does: two fetches when CACHE_ON_STARTUP is
\* "true", nothing otherwise.
Fetch(e, kind) ==
    [method |-> "PATCH", port |-> Template(e.PORT),
     prefix |-> Template(e.API_PREFIX), kind |-> kind, status |-> "pending"]

OpenListenerFetches(e) ==
    IF e.cacheOnStartup
    THEN << Fetch(e, WarmupKinds[1]), Fetch(e, WarmupKinds[2]) >>
    ELSE << >>

\* mongoose.connection emits "open": every registered listener runs.
DbOpen ==
    /\ db = "connecting"
    /\ db' = "open"
    /\ warmups' = warmups \o Repeat(OpenListenerFetches(env), openListeners)
    /\ UNCHANGED <<openListeners, log>>
    /\ UNCHANGED appVars
    /\ UNCHANGED reqVars
    /\ UNCHANGED lifeVars
    /\ UNCHANGED closeVars
    /\ UNCHANGED procVars
    /\ UNCHANGED portVars

\* The connection attempt fails: no "open" is emitted.
DbFail ==
    /\ db = "connecting"
    /\ db' = "failed"
    /\ UNCHANGED <<openListeners, warmups, log>>
    /\ UNCHANGED appVars
    /\ UNCHANGED reqVars
    /\ UNCHANGED lifeVars
    /\ UNCHANGED closeVars
    /\ UNCHANGED procVars
    /\ UNCHANGED portVars

\* Variant of FetchCallback: a failed fetch is issued again.
FetchCallbackRetry(i, err) ==
    /\ i \in 1..Len(warmups)
    /\ warmups[i].status = "pending"
    /\ Len(warmups) < 4 * MaxStarts
    /\ warmups' =
         IF err
         THEN Append([warmups EXCEPT ![i].status = "failed"],
                     [warmups[i] EXCEPT !.status = "pending"])
         ELSE [warmups EXCEPT ![i].status = "ok"]
    /\ log' = IF err THEN log + 1 ELSE log
    /\ UNCHANGED <<db, openListeners>>
    /\ UNCHANGED appVars
    /\ UNCHANGED reqVars
    /\ UNCHANGED lifeVars
    /\ UNCHANGED closeVars
    /\ UNCHANGED procVars
    /\ UNCHANGED portVars

\* The callback of one warm-up fetch: an error is printed, nothing else.
FetchCallback(i, err) ==
    /\ i \in 1..Len(warmups)
    /\ warmups[i].status = "pending"
    /\ warmups' = [warmups EXCEPT ![i].status = IF err THEN "failed" ELSE "ok"]
    /\ log' = IF err THEN log + 1 ELSE log
    /\ UNCHANGED <<db, openListeners>>
    /\ UNCHANGED appVars
    /\ UNCHANGED reqVars
    /\ UNCHANGED lifeVars
    /\ UNCHANGED closeVars
    /\ UNCHANGED procVars
    /\ UNCHANGED portVars

(* ------------------------- connections, close --------------------------- *)
\* A client connects: only a server that holds its socket accepts.
Accept(s, k) ==
    /\ handleOpen[s]
    /\ k \notin conns[s]
    /\ conns' = [conns EXCEPT ![s] = @ \cup {k}]
    /\ UNCHANGED <<closeListeners, pendingEmit, closeEmitted,
                   originalCloseCalls, callers>>
    /\ UNCHANGED appVars
    /\ UNCHANGED reqVars
    /\ UNCHANGED lifeVars
    /\ UNCHANGED dbVars
    /\ UNCHANGED procVars
    /\ UNCHANGED portVars

\* A connection ends on its own.  When it was the last one of a server
\* that has released its socket, the server schedules its "close" event.
ConnectionEnd(s, k) ==
    /\ k \in conns[s]
    /\ conns' = [conns EXCEPT ![s] = @ \ {k}]
    /\ pendingEmit' =
         [pendingEmit EXCEPT ![s] =
            IF listen[s] = "listening" /\ ~handleOpen[s] /\ conns[s] = {k}
            THEN @ + 1 ELSE @]
    /\ UNCHANGED <<closeListeners, closeEmitted, originalCloseCalls, callers>>
    /\ UNCHANGED appVars
    /\ UNCHANGED reqVars
    /\ UNCHANGED lifeVars
    /\ UNCHANGED dbVars
    /\ UNCHANGED procVars
    /\ UNCHANGED portVars

\* What originalClose hands its callback when "close" is emitted: nothing
\* when this call released the socket, an error object when the socket was
\* already released.
CloseCallbackArg(open) == IF open THEN "undefined" ELSE "ERR_SERVER_NOT_RUNNING"

\* Variant of serverClose: the wrapper also calls resolveClose itself,
\* without waiting for originalClose to report.
serverCloseResolveNow(s, c) ==
    /\ startPromise[s] = "resolved"
    /\ callers[c].server = 0
    /\ originalCloseCalls' = [originalCloseCalls EXCEPT ![s] = @ + 1]
    /\ callers' = [callers EXCEPT ![c] =
                     [server |-> s, resolveCalls |-> 1, value |-> "undefined",
                      cbArg |-> CloseCallbackArg(handleOpen[s]),
                      inflightAtCall |-> conns[s]]]
    /\ closeListeners' = [closeListeners EXCEPT ![s] = @ \cup {c}]
    /\ handleOpen' = [handleOpen EXCEPT ![s] = FALSE]
    /\ pendingEmit' = [pendingEmit EXCEPT ![s] =
                         IF conns[s] = {} THEN @ + 1 ELSE @]
    /\ UNCHANGED <<conns, closeEmitted, listen, startPromise>>
    /\ UNCHANGED appVars
    /\ UNCHANGED reqVars
    /\ UNCHANGED dbVars
    /\ UNCHANGED procVars
    /\ UNCHANGED portVars

\* Variant of serverClose: the wrapper destroys the open connections
\* before it closes the socket.
serverCloseDestroy(s, c) ==
    /\ startPromise[s] = "resolved"
    /\ callers[c].server = 0
    /\ originalCloseCalls' = [originalCloseCalls EXCEPT ![s] = @ + 1]
    /\ callers' = [callers EXCEPT ![c] =
                     [server |-> s, resolveCalls |-> 0, value |-> "none",
                      cbArg |-> CloseCallbackArg(handleOpen[s]),
                      inflightAtCall |-> conns[s]]]
    /\ closeListeners' = [closeListeners EXCEPT ![s] = @ \cup {c}]
    /\ handleOpen' = [handleOpen EXCEPT ![s] = FALSE]
    /\ conns' = [conns EXCEPT ![s] = {}]
    /\ pendingEmit' = [pendingEmit EXCEPT ![s] = @ + 1]
    /\ UNCHANGED <<closeEmitted, listen, startPromise>>
    /\ UNCHANGED appVars
    /\ UNCHANGED reqVars
    /\ UNCHANGED dbVars
    /\ UNCHANGED procVars
    /\ UNCHANGED portVars

\* Variant of serverClose: a call that finds the socket released takes it
\* again.
serverCloseReopen(s, c) ==
    /\ startPromise[s] = "resolved"
    /\ callers[c].server = 0
    /\ originalCloseCalls' = [originalCloseCalls EXCEPT ![s] = @ + 1]
    /\ callers' = [callers EXCEPT ![c] =
                     [server |-> s, resolveCalls |-> 0, value |-> "none",
                      cbArg |-> CloseCallbackArg(handleOpen[s]),
                      inflightAtCall |-> conns[s]]]
    /\ closeListeners' = [closeListeners EXCEPT ![s] = @ \cup {c}]
    /\ handleOpen' = [handleOpen EXCEPT ![s] = ~@]
    /\ pendingEmit' = [pendingEmit EXCEPT ![s] =
                         IF conns[s] = {} THEN @ + 1 ELSE @]
    /\ UNCHANGED <<conns, closeEmitted, listen, startPromise>>
    /\ UNCHANGED appVars
    /\ UNCHANGED reqVars
    /\ UNCHANGED dbVars
    /\ UNCHANGED procVars
    /\ UNCHANGED portVars

\* One call of the replaced server.close(): a new promise whose resolver is
\* passed to originalClose.  originalClose registers the resolver for the
\* next "close" event, releases the socket if it is held, and schedules
\* "close" when no connection is open.  Open connections are left alone.
serverClose(s, c) ==
    /\ startPromise[s] = "resolved"
    /\ callers[c].server = 0
    /\ originalCloseCalls' = [originalCloseCalls EXCEPT ![s] = @ + 1]
    /\ callers' = [callers EXCEPT ![c] =
                     [server |-> s, resolveCalls |-> 0, value |-> "none",
                      cbArg |-> CloseCallbackArg(handleOpen[s]),
                      inflightAtCall |-> conns[s]]]
    /\ closeListeners' = [closeListeners EXCEPT ![s] = @ \cup {c}]
    /\ handleOpen' = [handleOpen EXCEPT ![s] = FALSE]
    /\ pendingEmit' = [pendingEmit EXCEPT ![s] =
                         IF conns[s] = {} THEN @ + 1 ELSE @]
    /\ UNCHANGED <<conns, closeEmitted, listen, startPromise>>
    /\ UNCHANGED appVars
    /\ UNCHANGED reqVars
    /\ UNCHANGED dbVars
    /\ UNCHANGED procVars
    /\ UNCHANGED portVars

\* Variant of resolveClose: an error argument rejects the promise, as a
\* Node-style promisified callback would.
resolveCloseOrReject(rec) ==
    [rec EXCEPT !.resolveCalls = @ + 1,
                !.value = IF rec.value # "none" THEN @
                          ELSE IF rec.cbArg = "undefined" THEN rec.cbArg
                          ELSE "rejected"]

\* resolveClose(arg) on a caller's promise: the first call settles it.
resolveClose(rec) ==
    [rec EXCEPT !.resolveCalls = @ + 1,
                !.value = IF rec.value = "none" THEN rec.cbArg ELSE @]

\* The server emits "close": every resolver registered since the last
\* emission is called once and dropped.
EmitClose(s) ==
    /\ pendingEmit[s] > 0
    /\ pendingEmit' = [pendingEmit EXCEPT ![s] = @ - 1]
    /\ closeEmitted' = [closeEmitted EXCEPT ![s] = @ + 1]
    /\ callers' = [c \in Callers |->
                     IF c \in closeListeners[s] THEN resolveClose(callers[c])
                     ELSE callers[c]]
    /\ closeListeners' = [closeListeners EXCEPT ![s] = {}]
    /\ UNCHANGED <<conns, originalCloseCalls>>
    /\ UNCHANGED appVars
    /\ UNCHANGED reqVars
    /\ UNCHANGED lifeVars
    /\ UNCHANGED dbVars
    /\ UNCHANGED procVars
    /\ UNCHANGED portVars

(* ------------------------- request processing --------------------------- *)
\* The mount path a request path lies under.
MountOf(path) ==
    CASE path = "/api/v1/wifis" -> "/api/v1/"
      [] path = "/api/v2/wifis" -> "/api/v2/"
      [] OTHER -> "/"

UnderPrefix(path) == MountOf(path) = ApiPrefix(env)

\* Whether the router hands the request to a stage: an error is handed only
\* to the error middleware, a request only to the others; a route or a
\* mounted stage also has to match the method and the path.
Matches(stage, q, err) ==
    IF stage = "genericErrorMiddleware" THEN err
    ELSE /\ ~err
         /\ CASE stage = "swagger" -> q.path = "/api-docs"
              [] stage = "alive" -> q.method = "GET" /\ q.path = "/alive"
              [] stage = "routes" -> UnderPrefix(q.path)
              [] OTHER -> TRUE

\* The position of the first stage from position j on that takes the
\* request, 0 when none is left.
RECURSIVE Scan(_, _, _, _)
Scan(stack, q, err, j) ==
    IF j > Len(stack) THEN 0
    ELSE IF Matches(stack[j], q, err) THEN j
    ELSE Scan(stack, q, err, j + 1)

NextStage(stack, q, err, pos) == Scan(stack, q, err, pos + 1)

\* Variant of Incr: the store does not count the request.
IncrNotCounted(n) == n

\* rateLimiter's counter after one more request of the identity.  Past
\* the maximum the exact count is not kept: only `count > max` is read.
Incr(n) == IF n > RateMax THEN n ELSE n + 1

Respond(status, body) == [kind |-> "respond", res |-> [status |-> status, body |-> body]]
Forward == [kind |-> "next", res |-> NoResponse]
ForwardError == [kind |-> "error", res |-> NoResponse]

\* The route table mounted under the API prefix (getRoutes()): a handler
\* answers, no route matches, or a handler fails.
RoutesOutcomes(q) == { Respond(200, "route"), Forward, ForwardError }

\* genericErrorMiddleware: answers with the uniform error response.
ErrorReporterOutcomes(q) == { Respond(500, "error") }

\* expressLogger: records the request and passes it on.
LoggerOutcomes(q) == { Forward }

\* The documentation page of express-swagger-generator.
SwaggerOutcomes(q) == { Respond(200, "docs") }

\* What a stage may do with a request it is handed; count is the rate
\* limiter's counter of the identity after this request.
StageOutcomes(stage, q, count) ==
    CASE stage = "swagger" -> SwaggerOutcomes(q)
      [] stage = "rateLimiter" ->
           IF count > RateMax THEN { Respond(429, "Too many requests") }
           ELSE { Forward }
      [] stage = "helmet" -> { Forward }
      [] stage = "cors" ->
           IF q.method = "OPTIONS" THEN { Respond(204, "") } ELSE { Forward }
      [] stage = "alive" -> { Respond(200, "OK") }
      [] stage = "expressLogger" -> LoggerOutcomes(q)
      [] stage = "compression" -> { Forward }
      [] stage = "json" -> IF q.badBody THEN { ForwardError } ELSE { Forward }
      [] stage = "urlencoded" -> { Forward }
      [] stage = "routes" -> RoutesOutcomes(q)
      [] stage = "catchAll" -> { Respond(404, "404 - Not Found") }
      [] stage = "genericErrorMiddleware" -> ErrorReporterOutcomes(q)

\* A stage that does not call next() before returning: the body parser of a
\* request that has a body, and the route handlers.  Every other stage runs
\* in the same turn of the event loop as the stage before it.
Deferred(stage, q) ==
    \/ stage = "routes"
    \/ stage = "json" /\ q.method = "POST"

\* Express's own answer when no stage is left.
FinalHandler(err) ==
    IF err THEN [status |-> 500, body |-> "Internal Server Error"]
    ELSE [status |-> 404, body |-> "Cannot"]

\* compression.filter(req, res), the predicate of the library: a response
\* with a compressible content type.
compressible(res) == res.body # ""

\* Variant of filter: the header is not looked at.
filterGenericOnly(q, res) ==
    [called |-> TRUE, generic |-> TRUE, compress |-> compressible(res)]

\* The filter option given to compression(): false when the request has
\* the x-no-compression header, else what compression.filter says.
filter(q, res) ==
    IF "x-no-compression" \in q.headers
    THEN [called |-> TRUE, generic |-> FALSE, compress |-> FALSE]
    ELSE [called |-> TRUE, generic |-> TRUE, compress |-> compressible(res)]

\* The request of slot st has gone through the compression stage, which
\* then calls the filter when the response is sent.
Compressing(st) ==
    \E i \in DOMAIN st.trace : st.trace[i].stage = "compression"

\* Request slot st after response res has been sent.
Send(st, res) ==
    [st EXCEPT !.res = res,
               !.compression = IF Compressing(st) THEN filter(st.req, res) ELSE @]

\* Request slot st after the stage at position j has been entered and has
\* produced outcome o.
Enter(st, j, stage, o) ==
    LET in == [st EXCEPT !.pos = j,
                         !.trace = Append(@, [stage |-> stage, kind |-> o.kind]),
                         !.err = (o.kind = "error")]
    IN IF o.kind = "respond" THEN Send(in, o.res) ELSE in

\* The router runs the request through the stack until a stage answers, a
\* stage defers, or no stage is left; n is the rate limiter's counter of the
\* request's identity.
RECURSIVE RunSync(_, _, _)
RunSync(stack, st, n) ==
    LET j == NextStage(stack, st.req, st.err, st.pos)
    IN IF st.res.status # 0 THEN [st |-> st, n |-> n]
       ELSE IF j = 0
            THEN [st |-> Send(st, FinalHandler(st.err)), n |-> n]
       ELSE IF Deferred(stack[j], st.req) THEN [st |-> st, n |-> n]
       ELSE LET m == IF stack[j] = "rateLimiter" THEN Incr(n) ELSE n
                o == CHOOSE x \in StageOutcomes(stack[j], st.req, m) : TRUE
            IN RunSync(stack, Enter(st, j, stack[j], o), m)

\* A request slot is free when it holds no request or an answered one.
Free(r) == reqs[r].client = 0 \/ reqs[r].res.status # 0

\* A server that holds its socket receives a request (kept in the first
\* free slot): the router runs it through the stack up to the first stage
\* that defers.
Arrive(r, c, q) ==
    /\ \E s \in Servers : handleOpen[s]
    /\ Free(r)
    /\ \A x \in ReqIds : x < r => ~Free(x)
    /\ LET out == RunSync(app,
                          [NoRequest EXCEPT !.client = c, !.req = q], hits[c])
       IN /\ reqs' = [reqs EXCEPT ![r] = out.st]
          /\ hits' = [hits EXCEPT ![c] = out.n]
    /\ UNCHANGED appVars
    /\ UNCHANGED lifeVars
    /\ UNCHANGED closeVars
    /\ UNCHANGED dbVars
    /\ UNCHANGED procVars
    /\ UNCHANGED portVars

\* A deferred stage finishes with request r: it answers, passes the request
\* on or passes an error on, and the router runs on from there.
Step(r) ==
    /\ reqs[r].client # 0
    /\ reqs[r].res.status = 0
    /\ LET st == reqs[r]
           j == NextStage(app, st.req, st.err, st.pos)
       IN /\ j # 0
          /\ \E o \in StageOutcomes(app[j], st.req, hits[st.client]) :
               LET out == RunSync(app, Enter(st, j, app[j], o),
                                  hits[st.client])
               IN /\ reqs' = [reqs EXCEPT ![r] = out.st]
                  /\ hits' = [hits EXCEPT ![st.client] = out.n]
    /\ UNCHANGED appVars
    /\ UNCHANGED lifeVars
    /\ UNCHANGED closeVars
    /\ UNCHANGED dbVars
    /\ UNCHANGED procVars
    /\ UNCHANGED portVars

\* rateLimiter's window timer fires: every counter starts again.
WindowReset ==
    /\ \E c \in Clients : hits[c] > 0
    /\ hits' = [c \in Clients |-> 0]
    /\ UNCHANGED reqs
    /\ UNCHANGED appVars
    /\ UNCHANGED lifeVars
    /\ UNCHANGED closeVars
    /\ UNCHANGED dbVars
    /\ UNCHANGED procVars
    /\ UNCHANGED portVars

vars == <<env, started, app, listen, handleOpen, startPromise, conns,
          closeListeners, pendingEmit, closeEmitted, originalCloseCalls,
          callers, db, openListeners, warmups, log, reqs, hits,
          uncaughtListeners, logger, exited, portArg, port>>

\* Startup: the calls of startServer, the binds, the storage connection and
\* the warm-up fetches.
Next ==
    \/ \E arg \in PortArgs : startServer(arg)
    \/ \E s \in Servers : ListenCallback(s)
    \/ \E s \in Servers : ListenError(s)
    \/ DbOpen
    \/ DbFail
    \/ \E i \in 1..Len(warmups), err \in BOOLEAN : FetchCallback(i, err)

Spec == Init /\ [][Next]_vars

\* Shutdown: the calls of startServer, the binds, the connections and the
\* calls of server.close().
NextShutdown ==
    \/ startServer(undefined)
    \/ \E s \in Servers : ListenCallback(s)
    \/ \E s \in Servers : ListenError(s)
    \/ \E s \in Servers, k \in ConnIds : Accept(s, k)
    \/ \E s \in Servers, k \in ConnIds : ConnectionEnd(s, k)
    \/ \E s \in Servers, c \in Callers : serverClose(s, c)
    \/ \E s \in Servers : EmitClose(s)

SpecShutdown == Init /\ [][NextShutdown]_vars

\* CACHE_ON_STARTUP, PORT and API_PREFIX are not read during shutdown.
InitShutdown ==
    /\ Init
    /\ ~env.cacheOnStartup
    /\ env.PORT = undefined
    /\ env.API_PREFIX = undefined

\* Shutdown where every open connection ends in time and the event loop
\* runs every "close" event that is scheduled.
SpecShutdownFair ==
    /\ InitShutdown
    /\ [][NextShutdown]_vars
    /\ \A s \in Servers, k \in ConnIds : WF_vars(ConnectionEnd(s, k))
    /\ \A s \in Servers : WF_vars(EmitClose(s))

\* Serving: the calls of startServer, the binds and the requests.  The
\* storage connection, CACHE_ON_STARTUP and PORT are not read here; the
\* routes are mounted under the default prefix.
InitPipeline ==
    /\ Init
    /\ ~env.cacheOnStartup
    /\ env.PORT = undefined
    /\ env.API_PREFIX = undefined

NextPipeline ==
    \/ startServer(undefined)
    \/ \E s \in Servers : ListenCallback(s)
    \/ \E r \in ReqIds, c \in Clients, q \in Requests : Arrive(r, c, q)
    \/ \E r \in ReqIds : Step(r)
    \/ WindowReset

SpecPipeline == InitPipeline /\ [][NextPipeline]_vars

\* Probing: the calls of startServer, the binds, the storage connection and
\* a load balancer that sends liveness probes only.
AliveRequest == [method |-> "GET", path |-> "/alive", badBody |-> FALSE, headers |-> {}]

NextProbe ==
    \/ startServer(undefined)
    \/ \E s \in Servers : ListenCallback(s)
    \/ \E s \in Servers : ListenError(s)
    \/ DbOpen
    \/ DbFail
    \/ \E r \in ReqIds, c \in Clients : Arrive(r, c, AliveRequest)
    \/ WindowReset

SpecProbe == Init /\ [][NextProbe]_vars

\* Serving requests that carry the opt-out header of the compression stage
\* or do not.
NextCompression ==
    \/ startServer(undefined)
    \/ \E s \in Servers : ListenCallback(s)
    \/ \E r \in ReqIds, c \in Clients, q \in HeaderRequests : Arrive(r, c, q)
    \/ \E r \in ReqIds : Step(r)
    \/ WindowReset

SpecCompression == InitPipeline /\ [][NextCompression]_vars

\* Faults: the calls of startServer, the binds, the storage connection and
\* exceptions that escape their callback.
NextFault ==
    \/ startServer(undefined)
    \/ \E s \in Servers : ListenCallback(s)
    \/ \E s \in Servers : ListenError(s)
    \/ DbOpen
    \/ DbFail
    \/ UncaughtException

SpecFault == Init /\ [][NextFault]_vars

(* ------------------------------ the claims ------------------------------ *)
\* The callers of close() on server s whose promise is settled.
Settled(s) == { c \in Callers : callers[c].server = s /\ callers[c].resolveCalls > 0 }

\* C1: for one server, a second call of close() does not call the underlying
\* close operation again, and every call of close() resolves with the same
\* value as the first (nothing).
C1_CloseIdempotent ==
    \A s \in Servers :
        /\ originalCloseCalls[s] <= 1
        /\ \A c, d \in Settled(s) : callers[c].value = callers[d].value

\* C2: whatever the interleaving of the callers of close(), a handle that is
\* Closed stays Closed (it enters Closed once), no caller's resolver runs
\* more than once, a resolver runs only when the handle is Closed, and once
\* the handle is Closed with no "close" event outstanding every caller's
\* resolver has run exactly once.
C2_ResolvedOnce ==
    /\ [](\A c \in Callers :
            LET s == callers[c].server
            IN /\ callers[c].resolveCalls <= 1
               /\ s # 0 /\ callers[c].resolveCalls > 0 => State(s) = "Closed"
               /\ s # 0 /\ State(s) = "Closed" /\ pendingEmit[s] = 0
                    => callers[c].resolveCalls = 1)
    /\ [][\A s \in Servers : State(s) = "Closed" => State(s)' = "Closed"]_vars

\* C2 witness: two callers of close() on one server, both settled.
C2_Witness ==
    \E s \in Servers : \E c, d \in Settled(s) : c # d

\* C3: after close(), no caller is signalled and the handle is not Closed
\* while a connection that was open at the call is still open; the call
\* itself ends no connection; a handle that has left Listening accepts no
\* new connection.
C3_CloseDrains ==
    /\ [](\A c \in Callers :
            LET s == callers[c].server
            IN s # 0 /\ (callers[c].resolveCalls > 0 \/ State(s) = "Closed")
                 => callers[c].inflightAtCall \cap conns[s] = {})
    /\ [][\A s \in Servers :
            originalCloseCalls'[s] # originalCloseCalls[s]
              => conns'[s] = conns[s]]_vars
    /\ [][\A s \in Servers :
            State(s) \in {"Closing", "Closed"}
              => conns'[s] \subseteq conns[s]]_vars

\* C3 witness: a caller has been signalled whose call found a connection
\* open.
C3_Witness ==
    \E c \in Callers :
        /\ callers[c].resolveCalls > 0
        /\ callers[c].inflightAtCall # {}

\* C4: the promise startServer returns is resolved only once the socket is
\* bound, the handle is Listening at that moment, and after a failed bind
\* the promise stays pending for good (it is never rejected).
C4_ResolvesAfterBind ==
    /\ [](\A s \in Servers :
            /\ startPromise[s] \in {"none", "pending", "resolved"}
            /\ startPromise[s] = "resolved" => listen[s] = "listening"
            /\ listen[s] = "error" => startPromise[s] = "pending")
    /\ [][\A s \in Servers :
            /\ startPromise[s] # "resolved" /\ startPromise'[s] = "resolved"
                 => State(s)' = "Listening"
            /\ listen[s] = "error" => listen'[s] = "error"]_vars

\* C4 witness: one call whose bind failed and whose promise is pending,
\* another whose promise is resolved.
C4_Witness ==
    \E s, u \in Servers :
        /\ listen[s] = "error" /\ startPromise[s] = "pending"
        /\ startPromise[u] = "resolved" /\ State(u) = "Listening"

\* C6: over the life of the process exactly two warm-up requests are issued
\* when CACHE_ON_STARTUP is "true" and the storage connection has opened,
\* and none otherwise.
C6_WarmupTwoOrNone ==
    Len(warmups) = IF env.cacheOnStartup /\ db = "open" THEN 2 ELSE 0

\* The step settles a pending warm-up fetch.
FetchSettles ==
    \E i \in DOMAIN warmups :
        /\ i \in DOMAIN warmups'
        /\ warmups[i].status = "pending"
        /\ warmups'[i].status # "pending"

\* C7: the outcome of a warm-up request changes neither the startup result
\* nor the handle: the step that settles a fetch, with or without an error,
\* leaves the servers, their promises and the storage connection as they
\* are and issues no further fetch; a failure is logged and nothing else.
C7_WarmupOutcomeIgnored ==
    /\ [](log = Cardinality({ i \in DOMAIN warmups : warmups[i].status = "failed" }))
    /\ [][FetchSettles =>
            /\ UNCHANGED <<listen, handleOpen, startPromise>>
            /\ UNCHANGED <<db, openListeners, started, app>>
            /\ Len(warmups') = Len(warmups)
            /\ \A s \in Servers : State(s)' = State(s)]_vars

\* C7 witness: a warm-up fetch has failed and a server is Listening.
C7_Witness ==
    /\ \E i \in DOMAIN warmups : warmups[i].status = "failed"
    /\ \E s \in Servers : State(s) = "Listening" /\ startPromise[s] = "resolved"

\* The liveness probes that have arrived.
Probes == { r \in ReqIds : reqs[r].client # 0 /\ reqs[r].req = AliveRequest }

\* C10: every GET /alive received is answered 200 "OK", whatever the rate
\* limiter's counters, the storage connection and the rest of the stack.
C10_AliveAlwaysOK ==
    \A r \in Probes : reqs[r].res = [status |-> 200, body |-> "OK"]

\* C5: while the storage connection is Failed or still Connecting, a server
\* whose bind succeeded is Listening with its startup promise resolved, and
\* GET /alive is answered 200 "OK".
C5_StorageFailureNotFatal ==
    db \in {"connecting", "failed"} =>
        /\ \A s \in Servers :
             listen[s] = "listening"
               => State(s) = "Listening" /\ startPromise[s] = "resolved"
        /\ \A r \in Probes : reqs[r].res.status = 200 /\ reqs[r].res.body = "OK"

\* The positions of the stack at which the error middleware is registered.
ErrorReporterAt == { j \in DOMAIN app : app[j] = "genericErrorMiddleware" }

DeclaredOrder ==
    << "rateLimiter", "helmet", "cors", "alive", "expressLogger",
       "compression", "json", "urlencoded", "routes", "catchAll",
       "genericErrorMiddleware" >>

Rank(stage) == CHOOSE i \in DOMAIN DeclaredOrder : DeclaredOrder[i] = stage

IsDeclared(e) == e.stage # "swagger"

\* The declared stages request slot r has entered, in the order of entry.
Visited(r) == SelectSeq(reqs[r].trace, IsDeclared)

\* C9: for every request, whatever the other requests do: the stages it
\* has entered were entered in the declared order; every stage before the
\* last one entered passed the request (or an error) forward, so that a
\* stage that answers ends the traversal; a stage other than the error
\* middleware is entered only after every earlier declared stage that takes
\* the request was entered and passed it forward; the error middleware is
\* entered only after a stage passed an error forward.
C9_FixedStageOrder ==
    \A r \in ReqIds :
        LET v == Visited(r)
            t == reqs[r].trace
        IN reqs[r].client # 0 =>
            /\ \A i, j \in DOMAIN v : i < j => Rank(v[i].stage) < Rank(v[j].stage)
            /\ \A i \in DOMAIN t : i < Len(t) => t[i].kind # "respond"
            /\ reqs[r].res.status # 0 /\ t # << >> => t[Len(t)].kind = "respond"
            /\ reqs[r].res.status = 0 /\ t # << >> => t[Len(t)].kind # "respond"
            /\ \A j \in DOMAIN v :
                 IF v[j].stage = "genericErrorMiddleware"
                 THEN j > 1 /\ v[j - 1].kind = "error"
                 ELSE \A k \in DOMAIN DeclaredOrder :
                        k < Rank(v[j].stage) /\ Matches(DeclaredOrder[k], reqs[r].req, FALSE)
                          => \E i \in DOMAIN v :
                               i < j /\ v[i].stage = DeclaredOrder[k] /\ v[i].kind = "next"

\* C9 witness: requests of two clients are in the stack at once, one waiting
\* in a deferred stage, the other answered by the catch-all after having
\* entered every stage before it that takes it.
C9_Witness ==
    \E r, u \in ReqIds :
        /\ reqs[r].client # 0 /\ reqs[u].client # 0
        /\ reqs[r].client # reqs[u].client
        /\ reqs[r].res.status = 0 /\ reqs[r].trace # << >>
        /\ reqs[u].res.status = 404
        /\ Len(Visited(u)) = 9

\* Request slot r receives a request in this step.
ArrivesIn(r) == Free(r) /\ reqs'[r] # reqs[r] /\ reqs'[r].client # 0

\* The position in the trace of request slot st of its rateLimiter entry,
\* 0 when the request was not handed to the rate limiter.
LimiterEntry(st) ==
    IF \E i \in DOMAIN st.trace : st.trace[i].stage = "rateLimiter"
    THEN CHOOSE i \in DOMAIN st.trace : st.trace[i].stage = "rateLimiter"
    ELSE 0

\* C11: per identity, the rate limiter counts every request it is handed
\* and lets one pass only while fewer than 5 have been counted in the
\* window, so at most 5 pass per window; a request handed to it after that
\* is answered 429 by the rate limiter itself and enters no later stage
\* (no route in particular).  In production every request is handed to the
\* rate limiter first; elsewhere only the documentation page is answered
\* before it.
C11_RateLimitRejects ==
    /\ [](\A c \in Clients : hits[c] \in 0..(RateMax + 1))
    /\ [](\A r \in ReqIds :
            LET st == reqs[r]
                i == LimiterEntry(st)
            IN i # 0 /\ st.trace[i].kind # "next"
                 => /\ i = Len(st.trace)
                    /\ st.trace[i].kind = "respond"
                    /\ st.res.status = 429
                    /\ \A j \in DOMAIN st.trace : st.trace[j].stage # "routes")
    /\ [][\A c \in Clients :
            hits'[c] # hits[c]
              => \/ hits'[c] = 0
                 \/ hits'[c] = hits[c] + 1]_vars
    /\ [][\A r \in ReqIds :
            ArrivesIn(r) =>
              LET st == reqs'[r]
                  c == st.client
                  i == LimiterEntry(st)
              IN /\ st.trace # << >>
                 /\ i = 0 => ~env.production /\ st.trace[1].stage = "swagger"
                 /\ i # 0 =>
                      /\ i = 1 \/ (i = 2 /\ st.trace[1].stage = "swagger")
                      /\ hits[c] < RateMax
                           => st.trace[i].kind = "next" /\ hits'[c] = hits[c] + 1
                      /\ hits[c] >= RateMax
                           => /\ st.trace[i].kind = "respond"
                              /\ st.res.status = 429
                              /\ hits'[c] = RateMax + 1]_vars

\* C11 witness: one identity has had a request answered by a route and a
\* later request of the same window rejected by the rate limiter.
C11_Witness ==
    \E r, u \in ReqIds :
        /\ reqs[r].client # 0 /\ reqs[r].client = reqs[u].client
        /\ hits[reqs[r].client] = RateMax + 1
        /\ reqs[r].res.status = 429
        /\ reqs[u].res = [status |-> 200, body |-> "route"]

\* C12: the process has exactly one "uncaughtException" listener, however
\* many times startServer is called; each uncaught exception makes it log
\* the error (origin, error, stack trace) and then the restart warning,
\* once each; the process is not terminated and every server keeps its
\* state, a Listening one stays Listening.
C12_OneFaultHandler ==
    /\ [](uncaughtListeners = 1 /\ ~exited)
    /\ [][logger' # logger =>
            /\ logger' = logger \o uncaughtExceptionHandler
            /\ logger'[Len(logger') - 1].level = "error"
            /\ logger'[Len(logger')].level = "warn"
            /\ UNCHANGED handleOpen
            /\ \A s \in Servers : State(s)' = State(s)]_vars

\* C12 witness: startServer has been called twice, no bind has failed, the
\* handler has logged an uncaught exception and a server is Listening.
C12_Witness ==
    /\ started = 2
    /\ \A s \in Servers : listen[s] # "error"
    /\ Len(logger) = 2 * MaxFaults
    /\ \E s \in Servers : State(s) = "Listening"

\* The ports the calls of startServer made so far have handed to app.listen.
ListenPorts == { port[s] : s \in 1..started }

\* C13: every warm-up request is a PATCH to the port a call of startServer
\* binds on and to the resolved API prefix (API_PREFIX, else /api/v1/),
\* followed by wifis/patch/reloadFeatureCache or wifis/patch/reloadHeatmapData,
\* whether or not the port argument, PORT and API_PREFIX are given.
C13_WarmupTargetsSelf ==
    \A i \in DOMAIN warmups :
        /\ warmups[i].method = "PATCH"
        /\ warmups[i].port \in ListenPorts
        /\ warmups[i].prefix = ApiPrefix(env)
        /\ warmups[i].kind \in {"reloadFeatureCache", "reloadHeatmapData"}

\* C14: the port handed to app.listen, on which the socket is bound, is
\* the port argument when one is given, else PORT when it is set, else 5000.
C14_PortPrecedence ==
    \A s \in Servers :
        /\ s > started => port[s] = undefined /\ listen[s] = "none"
        /\ s <= started =>
             /\ portArg[s] # undefined => port[s] = portArg[s]
             /\ portArg[s] = undefined /\ env.PORT # undefined => port[s] = env.PORT
             /\ portArg[s] = undefined /\ env.PORT = undefined => port[s] = "5000"

\* C14 witness: with PORT set, one server is Listening on the port it was
\* given as argument and another on PORT.
C14_Witness ==
    \E s, u \in Servers :
        /\ env.PORT = "8080"
        /\ State(s) = "Listening" /\ portArg[s] = "3000" /\ port[s] = "3000"
        /\ State(u) = "Listening" /\ portArg[u] = undefined /\ port[u] = "8080"

\* The place of a state in the order Starting, Listening, Closing, Closed.
StateRank(x) ==
    CASE x = "Starting" -> 1
      [] x = "Listening" -> 2
      [] x = "Closing" -> 3
      [] x = "Closed" -> 4

\* C15: in every step, also one of a repeated close(), each server keeps
\* its state or moves to the next one in the order Starting, Listening,
\* Closing, Closed; so no state is entered again once left.
C15_StateMonotonic ==
    [][\A s \in Servers :
         \/ State(s)' = State(s)
         \/ StateRank(State(s)') = StateRank(State(s)) + 1]_vars

\* C15 witness: a server is Closed after close() was called on it twice and
\* "close" was emitted for both calls.
C15_Witness ==
    \E s \in Servers :
        /\ State(s) = "Closed"
        /\ originalCloseCalls[s] = 2
        /\ closeEmitted[s] = 2

\* A stage other than the catch-all has answered the request of slot r or
\* has failed it: the rate limiter (429), the cross-origin stage (a
\* preflight), a body parser (an error), or a route (the liveness probe,
\* the documentation page, a handler of the route table).
HandledBeforeCatchAll(r) ==
    \E i \in DOMAIN reqs[r].trace :
        /\ reqs[r].trace[i].stage # "catchAll"
        /\ reqs[r].trace[i].kind \in {"respond", "error"}

C17_OptOutNotCompressed ==
    \A r \in ReqIds :
        LET st == reqs[r]
        IN st.client # 0 =>
            /\ "x-no-compression" \in st.req.headers
                 => ~st.compression.compress /\ ~st.compression.generic
            /\ "x-no-compression" \notin st.req.headers /\ st.compression.called
                 => /\ st.compression.generic
                    /\ st.compression.compress = compressible(st.res)
            /\ st.compression.called <=> (st.res.status # 0 /\ Compressing(st))

\* C17 witness: the filter has been called for the response of a route to
\* a request with the header, and has let the response to a request
\* without the header be compressed.
C17_Witness ==
    \E r, u \in ReqIds :
        /\ "x-no-compression" \in reqs[r].req.headers
        /\ reqs[r].compression.called /\ ~reqs[r].compression.compress
        /\ reqs[r].res = [status |-> 200, body |-> "route"]
        /\ reqs[u].req.headers = {}
        /\ reqs[u].compression.called /\ reqs[u].compression.compress

\* No other server of the process holds the port of server s.
PortFree(s) == \A u \in Servers : u # s /\ handleOpen[u] => port[u] # port[s]

\* C18: the storage connection and the bind are started by the same call
\* and neither waits for the other: while the connection is being made it
\* can open, and issue the warm-up requests, whatever the servers' states;
\* while a bind is outstanding it can complete whatever the state of the
\* connection.  So the warm-up requests can be issued before the bind (a
\* server still Starting) and after it.
C18_WarmupUnordered ==
    /\ \A s \in Servers : listen[s] # "none" => db # "idle"
    /\ db = "connecting" => ENABLED DbOpen
    /\ \A s \in Servers :
         listen[s] = "pending" /\ PortFree(s) => ENABLED ListenCallback(s)

\* C18 witness: the two warm-up requests have been issued and the only
\* server is still Starting, its bind outstanding.
C18_Witness ==
    /\ started = 1
    /\ Len(warmups) = 2
    /\ listen[1] = "pending" /\ State(1) = "Starting"

\* The stages call number s of startServer has registered so far.
StagesOfCall(s) ==
    LET n == Len(RegisteredStages(env))
    IN SubSeq(app, (s - 1) * n + 1, IF s * n <= Len(app) THEN s * n ELSE Len(app))

\* C19: whenever the bind of a call of startServer has been initiated, all
\* the stages of that call are registered, the error middleware last; so
\* every request is handled by a stack made of complete registrations only.
C19_BindAfterRegistration ==
    /\ \A s \in Servers :
         listen[s] # "none" =>
            /\ StagesOfCall(s) = RegisteredStages(env)
            /\ StagesOfCall(s)[Len(StagesOfCall(s))] = "genericErrorMiddleware"
    /\ \A r \in ReqIds :
         reqs[r].client # 0 =>
            /\ Len(app) = started * Len(RegisteredStages(env))
            /\ \A s \in 1..started : StagesOfCall(s) = RegisteredStages(env)
            /\ reqs[r].pos <= Len(RegisteredStages(env))

\* C19 witness: a request that arrived before the second call of
\* startServer is still being handled after it, with the bind of the second
\* call outstanding.
C19_Witness ==
    \E r \in ReqIds :
        /\ started = 2 /\ listen[2] = "pending"
        /\ reqs[r].client # 0 /\ reqs[r].res.status = 0
        /\ Len(app) = 2 * Len(RegisteredStages(env))

\* C20: provided every open connection ends in time, the promise of every
\* call of close() is resolved in the end, the first call's and a later
\* one's, also one made when the server is already Closed; a promise is
\* settled by its resolver only and is never rejected, a late call being
\* resolved with the error object the underlying close reports.
C20_CloseSettles ==
    /\ \A c \in Callers :
         (callers[c].server # 0) ~> (callers[c].resolveCalls > 0)
    /\ [](\A c \in Callers :
            /\ callers[c].value \in {"none", "undefined", "ERR_SERVER_NOT_RUNNING"}
            /\ callers[c].value # "none" <=> callers[c].resolveCalls > 0)

\* C20 witness: on one server a first call of close() is resolved with
\* nothing and a call made after the server was Closed is resolved with the
\* error object.
C20_Witness ==
    \E s \in Servers : \E c, d \in Settled(s) :
        /\ closeEmitted[s] = 2
        /\ callers[c].value = "undefined"
        /\ callers[d].value = "ERR_SERVER_NOT_RUNNING"

====
